---- MODULE Spec2Model ----
(***************************************************************************)
(* Model of background.js, the background coordinator of the extension.   *)
(* Every event listener invocation is a task; a task is suspended at the  *)
(* host-API call it awaits, and an action is the resolution (or the       *)
(* rejection) of that call together with the synchronous code that runs   *)
(* up to the next await.                                                   *)
(***************************************************************************)
EXTENDS Integers, Sequences, FiniteSets, Bags, TLC

VARIABLES
    storage,      \* chrome.storage.local: a function from the present keys to their values
    tabs,         \* the host's open tabs, a sequence of [id, windowId, url]
    channel,      \* tab id -> what a send to the tab meets: a listener, none, or a fault
    lastFocused,  \* the host's last-focused normal window id, NoWindow when there is none
    tasks,        \* the running listener invocations, a bag of task records
    lastPass,     \* history: the latest completed run of applyStylesToTabs
    shown,        \* history: tab id -> the last applyStyle message delivered to that tab
    version,      \* history: number of completed chrome.storage.local.set calls
    uncaught,     \* history: listener invocations that ended in an unhandled rejection
    nEvents,      \* number of external events so far
    dispatched,   \* history: the event the last step delivered, and what its listener returned
    flips         \* history: the toggle writes completed, and contrastEnabled before them

vars == <<storage, tabs, channel, lastFocused, tasks, lastPass, shown,
          version, uncaught, nEvents, dispatched, flips>>

----------------------------------------------------------------------------
(* Bounds *)

MaxEvents == 2      \* external events in one behaviour
MaxTabs == 3        \* open tabs in a behaviour of SeqSpec

----------------------------------------------------------------------------
(* Values *)

SettingsKeys == {"contrastEnabled", "contrastLevel", "brightnessLevel", "saturationLevel", "scope"}

\* The key list of the storage read of applyStylesToTabs.
ReadKeys == SettingsKeys \cup {"activeWindowId"}

NoWindow == 0
WindowIds == {10, 11}
WINDOW_ID_NONE == 0 - 1

EmptyStore == <<>>

Has(obj, k) == k \in DOMAIN obj

Restrict(obj, ks) == [k \in ks \cap DOMAIN obj |-> obj[k]]

\* The object { ...a, ...b }: the keys of both, b's value where b has the key.
Spread(a, b) == [k \in DOMAIN a \cup DOMAIN b |-> IF k \in DOMAIN b THEN b[k] ELSE a[k]]

----------------------------------------------------------------------------
(* applyStylesToTabs: the pure part *)

defaults ==
    [contrastEnabled |-> FALSE, contrastLevel |-> 100, brightnessLevel |-> 100,
     saturationLevel |-> 100, scope |-> "all"]

\* A merge written the other way round, { ...settings, ...defaults }.
finalSettings_DefaultsWin(settings) == Spread(settings, defaults)

finalSettings(settings) == Spread(defaults, settings)

\* chrome.tabs.query({ url: ["http://*/*", "https://*/*"] })
UrlPatterns == {"http", "https"}

QueryTabs(all) == SelectSeq(all, LAMBDA t : t.url \in UrlPatterns)

\* The comparison made with the tab's own id.
InActiveWindow_ByTabId(fs, tab) == Has(fs, "activeWindowId") /\ tab.id = fs.activeWindowId

\* tab.windowId === finalSettings.activeWindowId; an absent key reads as undefined,
\* which is strictly equal to no window id.
InActiveWindow(fs, tab) == Has(fs, "activeWindowId") /\ tab.windowId = fs.activeWindowId

\* The scope decided without looking at the master switch.
apply_NoMasterSwitch(fs, tab) ==
    IF fs.scope = "all" THEN TRUE
    ELSE IF fs.scope = "window" /\ Has(fs, "activeWindowId") /\ tab.windowId = fs.activeWindowId
         THEN TRUE
    ELSE FALSE

\* Scope 'all' narrowed to the active window as well.
apply_AllNeedsWindow(fs, tab) ==
    IF fs.contrastEnabled
    THEN Has(fs, "activeWindowId") /\ tab.windowId = fs.activeWindowId
    ELSE FALSE

apply(fs, tab) ==
    IF fs.contrastEnabled
    THEN IF fs.scope = "all" THEN TRUE
         ELSE IF fs.scope = "window" /\ InActiveWindow(fs, tab) THEN TRUE
         ELSE FALSE
    ELSE FALSE

\* brightness and saturation taken from each other's key.
Message_Swapped(fs, tab) ==
    [action |-> "applyStyle",
     enabled |-> IF fs.contrastEnabled
                 THEN fs.scope = "all"
                      \/ (fs.scope = "window" /\ Has(fs, "activeWindowId")
                          /\ tab.windowId = fs.activeWindowId)
                 ELSE FALSE,
     level |-> fs.contrastLevel,
     brightness |-> fs.saturationLevel, saturation |-> fs.brightnessLevel]

Message(fs, tab) ==
    [action |-> "applyStyle", enabled |-> apply(fs, tab), level |-> fs.contrastLevel,
     brightness |-> fs.brightnessLevel, saturation |-> fs.saturationLevel]

\* The outcome of one chrome.tabs.sendMessage: the promise resolves, or rejects with
\* "Receiving end does not exist" (no listener in the tab) or with another error.
Outcome(tab, ch) ==
    CASE ch[tab.id] = "listening" -> "delivered"
      [] ch[tab.id] = "absent" -> "Receiving end does not exist"
      [] OTHER -> "other error"

\* A loop that awaits each send inside the try block: the first rejection ends it.
RECURSIVE SendLoop_AbortOnFailure(_, _, _)
SendLoop_AbortOnFailure(fs, found, ch) ==
    IF found = <<>> THEN <<>>
    ELSE <<[tabId |-> Head(found).id, msg |-> Message(fs, Head(found)),
            outcome |-> Outcome(Head(found), ch)]>>
         \o (IF Outcome(Head(found), ch) = "delivered"
             THEN SendLoop_AbortOnFailure(fs, Tail(found), ch)
             ELSE <<>>)

\* A loop that skips the tabs already styled by an earlier pass.
RECURSIVE SendLoop_SkipShown(_, _, _)
SendLoop_SkipShown(fs, found, ch) ==
    IF found = <<>> THEN <<>>
    ELSE (IF Head(found).id \in DOMAIN shown THEN <<>>
          ELSE <<[tabId |-> Head(found).id, msg |-> Message(fs, Head(found)),
                  outcome |-> Outcome(Head(found), ch)]>>)
         \o SendLoop_SkipShown(fs, Tail(found), ch)

\* The for loop: one sendMessage per enumerated tab, in order. The sends are not
\* awaited and every rejection goes to the .catch of its own promise.
RECURSIVE SendLoop(_, _, _)
SendLoop(fs, found, ch) ==
    IF found = <<>> THEN <<>>
    ELSE <<[tabId |-> Head(found).id, msg |-> Message(fs, Head(found)),
            outcome |-> Outcome(Head(found), ch)]>>
         \o SendLoop(fs, Tail(found), ch)

\* The content scripts' view after the sends: the delivered messages replace the
\* ones shown before, the later send to a tab winning.
RECURSIVE Deliver(_, _)
Deliver(sh, sent) ==
    IF sent = <<>> THEN sh
    ELSE Deliver(IF Head(sent).outcome = "delivered"
                 THEN Spread(sh, [i \in {Head(sent).tabId} |-> Head(sent).msg])
                 ELSE sh,
                 Tail(sent))

----------------------------------------------------------------------------
(* Listener invocations *)

\* A command listener that also calls the propagator itself.
Plan_CommandPropagates(h, arg) ==
    CASE h = "onInstalled" ->
            IF arg = "install" THEN <<"defaults", "tracker", "propagator">>
            ELSE <<"tracker", "propagator">>
      [] h = "onStartup" -> <<"tracker", "propagator">>
      [] h = "onChanged" -> <<"propagator">>
      [] h = "onUpdated" -> IF arg = "complete" THEN <<"propagator">> ELSE <<>>
      [] h = "onFocusChanged" -> IF arg > 0 THEN <<"tracker", "propagator">> ELSE <<>>
      [] h = "onCreated" -> <<"propagator">>
      [] h = "onCommand" -> IF arg = "toggle-contrast" THEN <<"toggle", "propagator">> ELSE <<>>
      [] h = "onMessage" -> IF arg = "getCurrentSettings" THEN <<"propagator">> ELSE <<>>

\* A focus listener that starts the propagator before the tracker.
Plan_PropagatorFirst(h, arg) ==
    CASE h = "onInstalled" ->
            IF arg = "install" THEN <<"defaults", "tracker", "propagator">>
            ELSE <<"tracker", "propagator">>
      [] h = "onStartup" -> <<"tracker", "propagator">>
      [] h = "onChanged" -> <<"propagator">>
      [] h = "onUpdated" -> IF arg = "complete" THEN <<"propagator">> ELSE <<>>
      [] h = "onFocusChanged" -> IF arg > 0 THEN <<"propagator", "tracker">> ELSE <<>>
      [] h = "onCreated" -> <<"propagator">>
      [] h = "onCommand" -> IF arg = "toggle-contrast" THEN <<"toggle">> ELSE <<>>
      [] h = "onMessage" -> IF arg = "getCurrentSettings" THEN <<"propagator">> ELSE <<>>

\* An install listener that writes the defaults after its other calls.
Plan_DefaultsLast(h, arg) ==
    CASE h = "onInstalled" ->
            IF arg = "install" THEN <<"tracker", "propagator", "defaults">>
            ELSE <<"tracker", "propagator">>
      [] h = "onStartup" -> <<"tracker", "propagator">>
      [] h = "onChanged" -> <<"propagator">>
      [] h = "onUpdated" -> IF arg = "complete" THEN <<"propagator">> ELSE <<>>
      [] h = "onFocusChanged" -> IF arg > 0 THEN <<"tracker", "propagator">> ELSE <<>>
      [] h = "onCreated" -> <<"propagator">>
      [] h = "onCommand" -> IF arg = "toggle-contrast" THEN <<"toggle">> ELSE <<>>
      [] h = "onMessage" -> IF arg = "getCurrentSettings" THEN <<"propagator">> ELSE <<>>

\* A message listener that propagates on every inbound message.
Plan_AnyMessagePropagates(h, arg) ==
    CASE h = "onInstalled" ->
            IF arg = "install" THEN <<"defaults", "tracker", "propagator">>
            ELSE <<"tracker", "propagator">>
      [] h = "onStartup" -> <<"tracker", "propagator">>
      [] h = "onChanged" -> <<"propagator">>
      [] h = "onUpdated" -> IF arg = "complete" THEN <<"propagator">> ELSE <<>>
      [] h = "onFocusChanged" -> IF arg > 0 THEN <<"tracker", "propagator">> ELSE <<>>
      [] h = "onCreated" -> <<"propagator">>
      [] h = "onCommand" -> IF arg = "toggle-contrast" THEN <<"toggle">> ELSE <<>>
      [] h = "onMessage" -> <<"propagator">>

\* A focus listener without the test of its window id.
Plan_FocusNoSentinel(h, arg) ==
    CASE h = "onInstalled" ->
            IF arg = "install" THEN <<"defaults", "tracker", "propagator">>
            ELSE <<"tracker", "propagator">>
      [] h = "onStartup" -> <<"tracker", "propagator">>
      [] h = "onChanged" -> <<"propagator">>
      [] h = "onUpdated" -> IF arg = "complete" THEN <<"propagator">> ELSE <<>>
      [] h = "onFocusChanged" -> <<"tracker", "propagator">>
      [] h = "onCreated" -> <<"propagator">>
      [] h = "onCommand" -> IF arg = "toggle-contrast" THEN <<"toggle">> ELSE <<>>
      [] h = "onMessage" -> IF arg = "getCurrentSettings" THEN <<"propagator">> ELSE <<>>

\* An install listener that writes the defaults whatever the reason.
Plan_InstallAlwaysDefaults(h, arg) ==
    CASE h = "onInstalled" -> <<"defaults", "tracker", "propagator">>
      [] h = "onStartup" -> <<"tracker", "propagator">>
      [] h = "onChanged" -> <<"propagator">>
      [] h = "onUpdated" -> IF arg = "complete" THEN <<"propagator">> ELSE <<>>
      [] h = "onFocusChanged" -> IF arg > 0 THEN <<"tracker", "propagator">> ELSE <<>>
      [] h = "onCreated" -> <<"propagator">>
      [] h = "onCommand" -> IF arg = "toggle-contrast" THEN <<"toggle">> ELSE <<>>
      [] h = "onMessage" -> IF arg = "getCurrentSettings" THEN <<"propagator">> ELSE <<>>

\* The calls a listener makes, in order, for the event argument it is given.
Plan(h, arg) ==
    CASE h = "onInstalled" ->
            IF arg = "install" THEN <<"defaults", "tracker", "propagator">>
            ELSE <<"tracker", "propagator">>
      [] h = "onStartup" -> <<"tracker", "propagator">>
      [] h = "onChanged" -> <<"propagator">>
      [] h = "onUpdated" -> IF arg = "complete" THEN <<"propagator">> ELSE <<>>
      [] h = "onFocusChanged" -> IF arg > 0 THEN <<"tracker", "propagator">> ELSE <<>>
      [] h = "onCreated" -> <<"propagator">>
      [] h = "onCommand" -> IF arg = "toggle-contrast" THEN <<"toggle">> ELSE <<>>
      [] h = "onMessage" -> IF arg = "getCurrentSettings" THEN <<"propagator">> ELSE <<>>

\* The first await of each call, named by its source line.
FirstPc(phase) ==
    CASE phase = "defaults" -> "L72"
      [] phase = "tracker" -> "L8"
      [] phase = "propagator" -> "L23"
      [] phase = "toggle" -> "L116"

\* What started a listener: an external event, or (for storage.onChanged) the write
\* that changed storage: the listener that wrote, the value a toggle had read, and
\* the number of that write.
ByEvent == [h |-> "event", read |-> FALSE, ver |-> 0]

\* reason is details.reason of the onInstalled listener, "none" for the others.
NewTask(h, plan, cause, reason) ==
    [h |-> h, plan |-> plan, pc |-> FirstPc(Head(plan)), cause |-> cause, reason |-> reason,
     settings |-> EmptyStore, focusedId |-> NoWindow,
     tracker |-> IF \E n \in 1..Len(plan) : plan[n] = "tracker" THEN "pending" ELSE "none",
     wroteVer |-> 0, readVer |-> 0, trackerDone |-> TRUE, defaultsVer |-> 0]

\* Task t has returned from its current call: the next call of its plan begins, or
\* the listener is finished.
Return(t) ==
    IF Len(t.plan) = 1 THEN EmptyBag
    ELSE SetToBag({[t EXCEPT !.plan = Tail(@), !.pc = FirstPc(t.plan[2]),
                             !.tracker = IF t.plan[1] = "tracker" THEN "done" ELSE @]})

Replace(t, ts) == (tasks (-) SetToBag({t})) (+) ts

\* chrome.storage.local.set(patch): storage.onChanged fires when an item changes,
\* and its listener is applyStylesToTabs.
Changed(patch) == \E k \in DOMAIN patch : ~Has(storage, k) \/ storage[k] # patch[k]

OnChanged(patch, cause) ==
    IF Changed(patch)
    THEN SetToBag({NewTask("onChanged", Plan("onChanged", "local"), cause, "none")})
    ELSE EmptyBag

----------------------------------------------------------------------------
(* External events: each starts the listener registered for it *)

Truthy(obj, k) == Has(obj, k) /\ obj[k] = TRUE

\* What a listener hands back to the host: the runtime.onMessage listener returns
\* true, an async function returns a promise, the tabs.onUpdated listener nothing.
ListenerResult(h, arg) ==
    CASE h = "onMessage" -> "true"
      [] h = "onUpdated" -> "undefined"
      [] OTHER -> "promise"

\* What a listener passes to sendResponse: no listener calls it.
ListenerResponse(h, arg) == "none"

NoEvent == [h |-> "none", arg |-> "none", result |-> "none", response |-> "none"]

Dispatch(h, arg) ==
    /\ nEvents < MaxEvents
    /\ nEvents' = nEvents + 1
    /\ dispatched' = [h |-> h, arg |-> arg, result |-> ListenerResult(h, arg),
                      response |-> ListenerResponse(h, arg)]
    /\ tasks' = tasks (+) (IF Plan(h, arg) = <<>> THEN EmptyBag
                           ELSE SetToBag({NewTask(h, Plan(h, arg), ByEvent,
                                                  IF h = "onInstalled" THEN arg ELSE "none")}))

Installed ==
    /\ \E reason \in {"install", "update"} : Dispatch("onInstalled", reason)
    /\ UNCHANGED <<storage, tabs, channel, lastFocused, lastPass, shown, version, uncaught, flips>>

Startup ==
    /\ Dispatch("onStartup", "startup")
    /\ UNCHANGED <<storage, tabs, channel, lastFocused, lastPass, shown, version, uncaught, flips>>

TabUpdated ==
    /\ \E status \in {"loading", "complete"} : Dispatch("onUpdated", status)
    /\ UNCHANGED <<storage, tabs, channel, lastFocused, lastPass, shown, version, uncaught, flips>>

\* The host reports the window that took the focus, WINDOW_ID_NONE when none has it.
FocusChanged ==
    /\ \E windowId \in WindowIds \cup {WINDOW_ID_NONE} :
          /\ Dispatch("onFocusChanged", windowId)
          /\ lastFocused' = IF windowId \in WindowIds THEN windowId ELSE lastFocused
    /\ UNCHANGED <<storage, tabs, channel, lastPass, shown, version, uncaught, flips>>

WindowCreated ==
    /\ Dispatch("onCreated", "window")
    /\ UNCHANGED <<storage, tabs, channel, lastFocused, lastPass, shown, version, uncaught, flips>>

Command ==
    /\ \E command \in {"toggle-contrast", "other-command"} : Dispatch("onCommand", command)
    /\ UNCHANGED <<storage, tabs, channel, lastFocused, lastPass, shown, version, uncaught, flips>>

RuntimeMessage ==
    /\ \E action \in {"getCurrentSettings", "other"} : Dispatch("onMessage", action)
    /\ UNCHANGED <<storage, tabs, channel, lastFocused, lastPass, shown, version, uncaught, flips>>

----------------------------------------------------------------------------
(* Task steps: the awaited host call of task t resolves or rejects *)

At(t, pc) == BagIn(t, tasks) /\ t.pc = pc

\* An install listener that initialises the master switch alone.
DefaultsSet_OnlySwitch(t) ==
    /\ At(t, "L72")
    /\ storage' = Spread(storage, [contrastEnabled |-> FALSE])
    /\ version' = version + 1
    /\ tasks' = Replace(t, Return([t EXCEPT !.defaultsVer = version + 1]))
                (+) OnChanged([contrastEnabled |-> FALSE],
                              [h |-> t.h, read |-> FALSE, ver |-> version + 1])
    /\ flips' = [flips EXCEPT !.only = FALSE]
    /\ UNCHANGED <<tabs, channel, lastFocused, lastPass, shown, uncaught, nEvents>>
    /\ dispatched' = NoEvent

\* await chrome.storage.local.set({...defaults}) of the onInstalled listener
DefaultsSet(t) ==
    /\ At(t, "L72")
    /\ storage' = Spread(storage, defaults)
    /\ version' = version + 1
    /\ tasks' = Replace(t, Return([t EXCEPT !.defaultsVer = version + 1]))
                (+) OnChanged(defaults, [h |-> t.h, read |-> FALSE, ver |-> version + 1])
    /\ flips' = [flips EXCEPT !.only = FALSE]
    /\ UNCHANGED <<tabs, channel, lastFocused, lastPass, shown, uncaught, nEvents>>
    /\ dispatched' = NoEvent

\* A rejection outside any try block ends the listener with an unhandled rejection.
Unhandled(t) ==
    /\ tasks' = Replace(t, EmptyBag)
    /\ uncaught' = TRUE
    /\ UNCHANGED <<storage, tabs, channel, lastFocused, lastPass, shown, version, nEvents, flips>>
    /\ dispatched' = NoEvent

DefaultsSetRejects(t) == At(t, "L72") /\ Unhandled(t)

\* A tracker that writes whatever the query gave, without the test of its id.
GetLastFocused_NoGuard(t) ==
    /\ At(t, "L8")
    /\ tasks' = Replace(t, SetToBag({[t EXCEPT !.pc = "L10", !.focusedId = lastFocused]}))
    /\ UNCHANGED <<storage, tabs, channel, lastFocused, lastPass, shown, version, uncaught, nEvents, flips>>
    /\ dispatched' = NoEvent

\* await chrome.windows.getLastFocused(...), then if (lastFocused?.id)
GetLastFocused(t) ==
    /\ At(t, "L8")
    /\ tasks' = Replace(t, IF lastFocused # NoWindow
                           THEN SetToBag({[t EXCEPT !.pc = "L10", !.focusedId = lastFocused]})
                           ELSE Return(t))
    /\ UNCHANGED <<storage, tabs, channel, lastFocused, lastPass, shown, version, uncaught, nEvents, flips>>
    /\ dispatched' = NoEvent

\* catch (e) of updateActiveWindow
TrackerCaught(t) ==
    /\ tasks' = Replace(t, Return(t))
    /\ UNCHANGED <<storage, tabs, channel, lastFocused, lastPass, shown, version, uncaught, nEvents, flips>>
    /\ dispatched' = NoEvent

GetLastFocusedRejects(t) == At(t, "L8") /\ TrackerCaught(t)

\* await chrome.storage.local.set({ activeWindowId: lastFocused.id })
ActiveWindowSet(t) ==
    /\ At(t, "L10")
    /\ storage' = Spread(storage, [activeWindowId |-> t.focusedId])
    /\ version' = version + 1
    /\ tasks' = Replace(t, Return([t EXCEPT !.wroteVer = version + 1]))
                (+) OnChanged([activeWindowId |-> t.focusedId],
                              [h |-> t.h, read |-> FALSE, ver |-> version + 1])
    /\ UNCHANGED <<tabs, channel, lastFocused, lastPass, shown, uncaught, nEvents, flips>>
    /\ dispatched' = NoEvent

ActiveWindowSetRejects(t) == At(t, "L10") /\ TrackerCaught(t)

\* const { contrastEnabled } = await chrome.storage.local.get('contrastEnabled')
ToggleGet(t) ==
    /\ At(t, "L116")
    /\ tasks' = Replace(t, SetToBag({[t EXCEPT !.pc = "L117",
                                               !.settings = Restrict(storage, {"contrastEnabled"})]}))
    /\ UNCHANGED <<storage, tabs, channel, lastFocused, lastPass, shown, version, uncaught, nEvents, flips>>
    /\ dispatched' = NoEvent

ToggleGetRejects(t) == At(t, "L116") /\ Unhandled(t)

TogglePatch(t) == [contrastEnabled |-> ~Truthy(t.settings, "contrastEnabled")]

\* await chrome.storage.local.set({ contrastEnabled: !contrastEnabled })
ToggleSet(t) ==
    /\ At(t, "L117")
    /\ storage' = Spread(storage, TogglePatch(t))
    /\ version' = version + 1
    /\ tasks' = Replace(t, Return(t))
                (+) OnChanged(TogglePatch(t),
                              [h |-> t.h, read |-> Truthy(t.settings, "contrastEnabled"),
                               ver |-> version + 1])
    /\ flips' = [flips EXCEPT !.n = @ + 1]
    /\ UNCHANGED <<tabs, channel, lastFocused, lastPass, shown, uncaught, nEvents>>
    /\ dispatched' = NoEvent

ToggleSetRejects(t) == At(t, "L117") /\ Unhandled(t)

\* const settings = await chrome.storage.local.get([...]); the tab query is issued next.
StorageGet(t) ==
    /\ At(t, "L23")
    /\ tasks' = Replace(t, SetToBag({[t EXCEPT !.pc = "L37",
                                               !.settings = Restrict(storage, ReadKeys),
                                               !.readVer = version,
                                               !.trackerDone = (t.tracker # "pending")]}))
    /\ UNCHANGED <<storage, tabs, channel, lastFocused, lastPass, shown, version, uncaught, nEvents, flips>>
    /\ dispatched' = NoEvent

NoPass ==
    [n |-> 0, h |-> "none", cause |-> ByEvent, error |-> "none", settings |-> EmptyStore,
     found |-> <<>>, sent |-> <<>>, focusedId |-> NoWindow, readVer |-> 0, wroteVer |-> 0,
     tracker |-> "none", trackerDone |-> TRUE]

Pass(t, error, found, sent) ==
    [n |-> lastPass.n + 1, h |-> t.h, cause |-> t.cause, error |-> error,
     settings |-> t.settings, found |-> found, sent |-> sent, focusedId |-> t.focusedId,
     readVer |-> t.readVer, wroteVer |-> t.wroteVer, tracker |-> t.tracker,
     trackerDone |-> t.trackerDone]

\* A propagator without its try block: the rejection reaches the listener's caller.
PropagatorCaught_Rethrows(t, error) ==
    /\ lastPass' = Pass(t, error, <<>>, <<>>)
    /\ tasks' = Replace(t, EmptyBag)
    /\ uncaught' = TRUE
    /\ UNCHANGED <<storage, tabs, channel, lastFocused, shown, version, nEvents, flips>>
    /\ dispatched' = NoEvent

\* catch (e) of applyStylesToTabs: the error is logged and the call returns.
PropagatorCaught(t, error) ==
    /\ lastPass' = Pass(t, error, <<>>, <<>>)
    /\ tasks' = Replace(t, Return(t))
    /\ UNCHANGED <<storage, tabs, channel, lastFocused, shown, version, uncaught, nEvents, flips>>
    /\ dispatched' = NoEvent

StorageGetRejects(t) == At(t, "L23") /\ PropagatorCaught(t, "storage.get")

\* A propagator that stores the merged settings it has sent.
TabsQuery_WritesBack(t) ==
    /\ At(t, "L37")
    /\ LET found == QueryTabs(tabs)
           sent == SendLoop(finalSettings(t.settings), found, channel)
       IN  /\ lastPass' = Pass(t, "none", found, sent)
           /\ shown' = Deliver(shown, sent)
    /\ storage' = Spread(storage, finalSettings(t.settings))
    /\ version' = version + 1
    /\ tasks' = Replace(t, Return(t))
                (+) OnChanged(finalSettings(t.settings),
                              [h |-> t.h, read |-> FALSE, ver |-> version + 1])
    /\ UNCHANGED <<tabs, channel, lastFocused, uncaught, nEvents, flips>>
    /\ dispatched' = NoEvent

\* const tabs = await chrome.tabs.query(...), then the for loop over the tabs.
TabsQuery(t) ==
    /\ At(t, "L37")
    /\ LET found == QueryTabs(tabs)
           sent == SendLoop(finalSettings(t.settings), found, channel)
       IN  /\ lastPass' = Pass(t, "none", found, sent)
           /\ shown' = Deliver(shown, sent)
    /\ tasks' = Replace(t, Return(t))
    /\ UNCHANGED <<storage, tabs, channel, lastFocused, version, uncaught, nEvents, flips>>
    /\ dispatched' = NoEvent

TabsQueryRejects(t) == At(t, "L37") /\ PropagatorCaught(t, "tabs.query")

----------------------------------------------------------------------------
(* The background service worker under its events *)

Tab(n) ==
    [id |-> n, windowId |-> IF n % 2 = 1 THEN 10 ELSE 11,
     url |-> CASE n % 3 = 1 -> "https" [] n % 3 = 2 -> "http" [] OTHER -> "chrome"]

OpenTabs(n) == [k \in 1..n |-> Tab(k)]

\* A store as an earlier session left it.
SavedStore ==
    [contrastEnabled |-> TRUE, contrastLevel |-> 80, brightnessLevel |-> 110,
     saturationLevel |-> 100, scope |-> "window", activeWindowId |-> 10]

Quiet ==
    /\ tasks = EmptyBag
    /\ lastPass = NoPass
    /\ shown = <<>>
    /\ version = 0
    /\ uncaught = FALSE
    /\ nEvents = 0
    /\ dispatched = NoEvent
    /\ flips = [n |-> 0, from |-> Truthy(storage, "contrastEnabled"), only |-> TRUE]

\* Tab 3 is no http/https page; tab 4 is one whose content script has not loaded.
Init ==
    /\ storage \in {EmptyStore, SavedStore}
    /\ tabs = <<Tab(1), Tab(2), Tab(3), Tab(4)>>
    /\ channel = <<"listening", "listening", "absent", "absent">>
    /\ lastFocused \in {NoWindow, 11}
    /\ Quiet

Next ==
    \/ Installed
    \/ Startup
    \/ TabUpdated
    \/ FocusChanged
    \/ WindowCreated
    \/ Command
    \/ RuntimeMessage
    \/ \E t \in BagToSet(tasks) : DefaultsSet(t)
    \/ \E t \in BagToSet(tasks) : GetLastFocused(t)
    \/ \E t \in BagToSet(tasks) : ActiveWindowSet(t)
    \/ \E t \in BagToSet(tasks) : ToggleGet(t)
    \/ \E t \in BagToSet(tasks) : ToggleSet(t)
    \/ \E t \in BagToSet(tasks) : StorageGet(t)
    \/ \E t \in BagToSet(tasks) : TabsQuery(t)

Spec == Init /\ [][Next]_vars

\* The same program under a host whose calls may fail.
FaultNext ==
    \/ Next
    \/ \E t \in BagToSet(tasks) : DefaultsSetRejects(t)
    \/ \E t \in BagToSet(tasks) : GetLastFocusedRejects(t)
    \/ \E t \in BagToSet(tasks) : ActiveWindowSetRejects(t)
    \/ \E t \in BagToSet(tasks) : ToggleGetRejects(t)
    \/ \E t \in BagToSet(tasks) : ToggleSetRejects(t)
    \/ \E t \in BagToSet(tasks) : StorageGetRejects(t)
    \/ \E t \in BagToSet(tasks) : TabsQueryRejects(t)

FaultSpec == Init /\ [][FaultNext]_vars

\* Every awaited host call settles.
Settle == \E t \in BagToSet(tasks) :
    \/ DefaultsSet(t) \/ GetLastFocused(t) \/ ActiveWindowSet(t) \/ ToggleGet(t)
    \/ ToggleSet(t) \/ StorageGet(t) \/ TabsQuery(t)

FairSpec == Spec /\ WF_vars(Settle)

\* Under a failing host every awaited call still settles, one way or the other.
SettleOrReject ==
    \/ Settle
    \/ \E t \in BagToSet(tasks) :
          \/ DefaultsSetRejects(t) \/ GetLastFocusedRejects(t) \/ ActiveWindowSetRejects(t)
          \/ ToggleGetRejects(t) \/ ToggleSetRejects(t) \/ StorageGetRejects(t)
          \/ TabsQueryRejects(t)

FairFaultSpec == FaultSpec /\ WF_vars(SettleOrReject)

----------------------------------------------------------------------------
(* applyStylesToTabs called in succession, from any store and any set of tabs *)

Opt(k, vals) == {EmptyStore} \cup {[x \in {k} |-> v] : v \in vals}

Stores ==
    {Spread(a, Spread(b, Spread(c, Spread(d, Spread(e, f))))) :
        a \in Opt("contrastEnabled", BOOLEAN),
        b \in Opt("contrastLevel", {0, 80}),
        c \in Opt("brightnessLevel", {110}),
        d \in Opt("saturationLevel", {90}),
        e \in Opt("scope", {"all", "window"}),
        f \in Opt("activeWindowId", WindowIds)}

Channels == {"listening", "absent", "broken"}

SeqInit ==
    /\ storage \in Stores
    /\ \E n \in 0..MaxTabs :
          /\ tabs = OpenTabs(n)
          /\ channel \in [1..n -> Channels]
    /\ lastFocused = NoWindow
    /\ Quiet

\* The next call starts when the one before has returned.
SeqCall ==
    /\ tasks = EmptyBag
    /\ WindowCreated

SeqNext ==
    \/ SeqCall
    \/ \E t \in BagToSet(tasks) : StorageGet(t)
    \/ \E t \in BagToSet(tasks) : TabsQuery(t)

SeqSpec == SeqInit /\ [][SeqNext]_vars

----------------------------------------------------------------------------
(* Properties of one propagation: what lastPass records of the run *)

Ran == lastPass.n > 0 /\ lastPass.error = "none"

Sent == lastPass.sent

TabOf(id) == tabs[CHOOSE n \in 1..Len(tabs) : tabs[n].id = id]

HttpTabs == {n \in 1..Len(tabs) : tabs[n].url \in {"http", "https"}}

\* The defaults the data model documents for the five settings keys.
Documented ==
    [contrastEnabled |-> FALSE, contrastLevel |-> 100, brightnessLevel |-> 100,
     saturationLevel |-> 100, scope |-> "all"]

\* The store read, with every missing settings key stored at its documented default.
Completed(settings) ==
    [k \in SettingsKeys \cup DOMAIN settings |->
        IF Has(settings, k) THEN settings[k] ELSE Documented[k]]

\* C1: in a propagation that read contrastEnabled false or absent, every message
\* sent has enabled = false, whatever scope, activeWindowId and the tab's window.
C1_DisabledSendsFalse ==
    (Ran /\ ~Truthy(lastPass.settings, "contrastEnabled"))
        => \A k \in 1..Len(Sent) : Sent[k].msg.enabled = FALSE

C1_Witness ==
    /\ Ran
    /\ Has(lastPass.settings, "contrastEnabled") /\ lastPass.settings.contrastEnabled = FALSE
    /\ Has(lastPass.settings, "scope") /\ lastPass.settings.scope = "window"
    /\ Has(lastPass.settings, "activeWindowId") /\ lastPass.settings.activeWindowId = 10
    /\ \E k \in 1..Len(Sent) : TabOf(Sent[k].tabId).windowId = 10
    /\ \E k \in 1..Len(Sent) : TabOf(Sent[k].tabId).windowId = 11

\* C2: in a propagation that read contrastEnabled = true and scope 'all' (stored, or
\* missing and so defaulted), every open
\* http/https tab is sent a message with enabled = true, whatever its window and
\* whatever activeWindowId is, absent included.
C2_ScopeAllSendsTrue ==
    (Ran /\ Truthy(lastPass.settings, "contrastEnabled")
         /\ (Has(lastPass.settings, "scope") => lastPass.settings.scope = "all"))
        => /\ \A n \in HttpTabs : \E k \in 1..Len(Sent) : Sent[k].tabId = tabs[n].id
           /\ \A k \in 1..Len(Sent) : Sent[k].msg.enabled = TRUE

C2_Witness ==
    /\ Ran
    /\ Truthy(lastPass.settings, "contrastEnabled")
    /\ Has(lastPass.settings, "scope") /\ lastPass.settings.scope = "all"
    /\ ~Has(lastPass.settings, "activeWindowId")
    /\ \E k \in 1..Len(Sent) : TabOf(Sent[k].tabId).url = "http"
    /\ \E k \in 1..Len(Sent) : TabOf(Sent[k].tabId).url = "https"

\* C3: in a propagation that read contrastEnabled = true and scope 'window', a tab is
\* sent enabled = true exactly when its windowId is the activeWindowId this
\* propagation read; with activeWindowId absent no tab is sent enabled = true.
C3_ScopeWindowFollowsActive ==
    (Ran /\ Truthy(lastPass.settings, "contrastEnabled")
         /\ Has(lastPass.settings, "scope") /\ lastPass.settings.scope = "window")
        => \A k \in 1..Len(Sent) :
              Sent[k].msg.enabled =
                  (/\ Has(lastPass.settings, "activeWindowId")
                   /\ TabOf(Sent[k].tabId).windowId = lastPass.settings.activeWindowId)

C3_Witness ==
    /\ Ran
    /\ Truthy(lastPass.settings, "contrastEnabled")
    /\ Has(lastPass.settings, "scope") /\ lastPass.settings.scope = "window"
    /\ Has(lastPass.settings, "activeWindowId") /\ lastPass.settings.activeWindowId = 10
    /\ \E k \in 1..Len(Sent) : Sent[k].tabId = 1 /\ Sent[k].msg.enabled = TRUE
    /\ \E k \in 1..Len(Sent) : Sent[k].tabId = 2 /\ Sent[k].msg.enabled = FALSE

\* C4: default-merge law. Whatever subset of the five settings keys is missing, the
\* messages sent are those for the store with the missing keys at their documented
\* defaults; a key that is present keeps its value, false and 0 included.
C4_DefaultMerge ==
    Ran => /\ Len(Sent) = Len(lastPass.found)
           /\ \A k \in 1..Len(Sent) :
                 Sent[k].msg = [action |-> "applyStyle",
                                enabled |-> apply(Completed(lastPass.settings), lastPass.found[k]),
                                level |-> Completed(lastPass.settings).contrastLevel,
                                brightness |-> Completed(lastPass.settings).brightnessLevel,
                                saturation |-> Completed(lastPass.settings).saturationLevel]

C4_Witness ==
    /\ Ran
    /\ DOMAIN lastPass.settings = {"contrastEnabled", "contrastLevel"}
    /\ lastPass.settings.contrastEnabled = FALSE
    /\ lastPass.settings.contrastLevel = 0
    /\ \E k \in 1..Len(Sent) : Sent[k].msg.level = 0 /\ Sent[k].msg.brightness = 100

\* One message for every open http/https tab, and for no other tab.
OnePerHttpTab(sent) ==
    /\ Len(sent) = Cardinality(HttpTabs)
    /\ \A n \in HttpTabs : \E k \in 1..Len(sent) : sent[k].tabId = tabs[n].id

\* C5: idempotence. A second call with storage and tabs unchanged sends every
\* http/https tab one more message, with the payload and outcome of the first, and
\* no call changes storage.
C5_Idempotent ==
    [][/\ storage' = storage
       /\ (lastPass'.n = lastPass.n + 1 /\ lastPass.n >= 1)
            => /\ lastPass'.sent = lastPass.sent
               /\ OnePerHttpTab(lastPass.sent)
               /\ OnePerHttpTab(lastPass'.sent)]_vars

C5_Witness ==
    /\ lastPass.n = 2
    /\ tasks = EmptyBag
    /\ Len(Sent) >= 2
    /\ \E k \in 1..Len(Sent) : Sent[k].outcome = "delivered" /\ Sent[k].msg.enabled = TRUE

\* C6: every message of a pass has action 'applyStyle' and carries the stored
\* contrastLevel, brightnessLevel and saturationLevel (the default where the key is
\* missing), the same for every tab, enabled or not.
C6_LevelsCarried ==
    Ran => \A k \in 1..Len(Sent) :
              /\ Sent[k].msg.action = "applyStyle"
              /\ Sent[k].msg.level =
                    IF Has(lastPass.settings, "contrastLevel")
                    THEN lastPass.settings.contrastLevel ELSE 100
              /\ Sent[k].msg.brightness =
                    IF Has(lastPass.settings, "brightnessLevel")
                    THEN lastPass.settings.brightnessLevel ELSE 100
              /\ Sent[k].msg.saturation =
                    IF Has(lastPass.settings, "saturationLevel")
                    THEN lastPass.settings.saturationLevel ELSE 100

\* The scenario of the testable properties: both tabs receive
\* {applyStyle, enabled: true, level: 80, brightness: 110, saturation: 100}.
C6_Witness ==
    /\ Ran
    /\ lastPass.settings = [contrastEnabled |-> TRUE, contrastLevel |-> 80,
                            brightnessLevel |-> 110, scope |-> "all"]
    /\ \A id \in {1, 2} : \E k \in 1..Len(Sent) :
          /\ Sent[k].tabId = id
          /\ Sent[k].msg = [action |-> "applyStyle", enabled |-> TRUE, level |-> 80,
                            brightness |-> 110, saturation |-> 100]

\* C7: per-tab failure isolation. Whatever sends fail, the pass issues one send to
\* each enumerated tab, in order, with the payload the settings give that tab, and
\* the call returns without raising.
C7_FailureIsolation ==
    (lastPass.n > 0)
        => /\ lastPass.error = "none"
           /\ uncaught = FALSE
           /\ Len(Sent) = Len(QueryTabs(tabs))
           /\ \A k \in 1..Len(Sent) :
                 /\ Sent[k].tabId = QueryTabs(tabs)[k].id
                 /\ Sent[k].msg = Message(finalSettings(lastPass.settings), QueryTabs(tabs)[k])

C7_Witness ==
    /\ Ran
    /\ Len(Sent) = 2
    /\ Sent[1].outcome \in {"Receiving end does not exist", "other error"}
    /\ Sent[2].outcome = "delivered"
    /\ Sent[2].msg.enabled = TRUE
    /\ DOMAIN shown = {Sent[2].tabId}

----------------------------------------------------------------------------
(* Properties of the listeners running together *)

Running == BagToSet(tasks)

\* The storage.onChanged listener started by the write of a toggle that had read
\* contrastEnabled = true.
FromToggle(c) == c.h = "onCommand" /\ c.read

\* C8 as claimed: the propagation that the storage-changed event of such a toggle
\* starts sends enabled = false to every tab.
C8_CascadeSendsFalse ==
    (lastPass.n > 0 /\ lastPass.h = "onChanged" /\ FromToggle(lastPass.cause))
        => \A k \in 1..Len(Sent) : Sent[k].msg.enabled = FALSE

C8_Safety ==
    /\ \A t \in Running : t.h = "onCommand" => t.plan = <<"toggle">> /\ t.pc \in {"L116", "L117"}
    /\ lastPass.h # "onCommand"
    /\ \A t \in Running :
          FromToggle(t.cause) => t.h = "onChanged" /\ (t.pc = "L37" => t.readVer >= t.cause.ver)
    /\ (lastPass.n > 0 /\ FromToggle(lastPass.cause))
          => /\ lastPass.h = "onChanged"
             /\ lastPass.error = "none"
                   => /\ lastPass.readVer >= lastPass.cause.ver
                      /\ lastPass.readVer = lastPass.cause.ver
                            => /\ Has(lastPass.settings, "contrastEnabled")
                               /\ lastPass.settings.contrastEnabled = FALSE
                      /\ ~Truthy(lastPass.settings, "contrastEnabled")
                            => \A k \in 1..Len(Sent) : Sent[k].msg.enabled = FALSE

\* The write of a toggle that had read true stores false, and when that changes
\* storage the storage-changed listener is started with it; when that listener's
\* propagation returns, it is the pass recorded.
C8_Steps ==
    /\ \A t \in Running :
          (/\ t.pc = "L117" /\ Truthy(t.settings, "contrastEnabled")
           /\ version' = version + 1
           /\ CopiesIn(t, tasks') < CopiesIn(t, tasks))
          => /\ Has(storage', "contrastEnabled") /\ storage'.contrastEnabled = FALSE
             /\ Truthy(storage, "contrastEnabled")
                   => \E u \in BagToSet(tasks') :
                         /\ u.h = "onChanged" /\ u.pc = "L23"
                         /\ FromToggle(u.cause) /\ u.cause.ver = version'
    /\ \A t \in Running :
          (FromToggle(t.cause) /\ t.pc = "L37" /\ CopiesIn(t, tasks') < CopiesIn(t, tasks))
          => lastPass'.n = lastPass.n + 1 /\ lastPass'.cause = t.cause

CascadePending == \E t \in Running : FromToggle(t.cause)

\* C8, amended: a toggle that read contrastEnabled = true writes false; the command
\* listener never runs the propagator; when the write changes storage, the
\* storage-changed listener it starts runs one propagation, which reads storage
\* after the write and, unless its host calls fail, sends enabled = false to every
\* tab if contrastEnabled is still false at its read, as it is when no other write
\* came between.
C8_ToggleCascade ==
    /\ []C8_Safety
    /\ [][C8_Steps]_vars
    /\ CascadePending ~> ~CascadePending

C8_Witness ==
    /\ lastPass.n > 0 /\ lastPass.h = "onChanged" /\ FromToggle(lastPass.cause)
    /\ lastPass.error = "none"
    /\ lastPass.readVer = lastPass.cause.ver
    /\ Len(Sent) >= 2
    /\ \A k \in 1..Len(Sent) : Sent[k].msg.enabled = FALSE
    /\ \E id \in DOMAIN shown : shown[id].enabled = FALSE

\* C9: in the focus, startup and install listeners the propagator reads storage
\* only after the tracker of the same listener has returned, its activeWindowId
\* write complete: the read is no older than that write, and with no later write it
\* returns the id just written.
C9_TrackerBeforePropagator ==
    /\ \A t \in Running :
          /\ t.tracker = "pending" => t.pc \notin {"L23", "L37"}
          /\ t.pc = "L37" => t.trackerDone /\ t.readVer >= t.wroteVer
    /\ (lastPass.n > 0 /\ lastPass.h \in {"onFocusChanged", "onStartup", "onInstalled"})
          => /\ lastPass.tracker = "done"
             /\ lastPass.error # "storage.get"
                   => /\ lastPass.trackerDone
                      /\ lastPass.readVer >= lastPass.wroteVer
                      /\ (lastPass.wroteVer > 0 /\ lastPass.readVer = lastPass.wroteVer)
                            => /\ Has(lastPass.settings, "activeWindowId")
                               /\ lastPass.settings.activeWindowId = lastPass.focusedId

C9_Witness ==
    /\ lastPass.n > 0 /\ lastPass.h = "onFocusChanged" /\ lastPass.error = "none"
    /\ lastPass.wroteVer > 0 /\ lastPass.readVer = lastPass.wroteVer
    /\ lastPass.settings.activeWindowId = 11
    /\ Has(lastPass.settings, "scope") /\ lastPass.settings.scope = "window"
    /\ \E k \in 1..Len(Sent) : Sent[k].tabId = 2 /\ Sent[k].msg.enabled = TRUE

\* C10: once every listener has returned and every send has completed, each tab that
\* was delivered a message shows the payload computed from the final storage.
C10_Converges ==
    (tasks = EmptyBag)
        => \A id \in DOMAIN shown :
              shown[id] = Message(finalSettings(Restrict(storage, ReadKeys)), TabOf(id))

----------------------------------------------------------------------------
(* Properties of the listeners under a host whose calls fail *)

\* The tasks of ts that bs does not hold: the invocations started by a step from
\* bs to ts, and the ones a step moved to a new await.
Started(bs, ts) == {u \in BagToSet(ts) : CopiesIn(u, ts) > CopiesIn(u, bs)}

C11_NoSend ==
    (lastPass.n > 0 /\ lastPass.error # "none")
        => /\ lastPass.error \in {"storage.get", "tabs.query"}
           /\ lastPass.sent = <<>>

C11_Step ==
    (lastPass'.n = lastPass.n + 1 /\ lastPass'.error # "none")
        => /\ storage' = storage /\ version' = version
           /\ shown' = shown
           /\ uncaught' = uncaught
           /\ Started(tasks, tasks') = {}
           /\ \E t \in Running :
                 /\ t.pc = (IF lastPass'.error = "storage.get" THEN "L23" ELSE "L37")
                 /\ tasks' = tasks (-) SetToBag({t})

\* C11: a call of applyStylesToTabs whose storage read or tab query rejects sends no
\* message to any tab, leaves storage as it was, starts nothing again, and returns
\* to its caller without raising.
C11_WholeFailure == []C11_NoSend /\ [][C11_Step]_vars

C11_Witness ==
    /\ lastPass.n = 1 /\ lastPass.error = "tabs.query"
    /\ Truthy(lastPass.settings, "contrastEnabled")
    /\ storage = SavedStore
    /\ shown = <<>>
    /\ tasks = EmptyBag
    /\ uncaught = FALSE

\* C12: no fatal errors. Whatever host call fails in whatever listener, the failure
\* is caught inside the listener: no listener invocation ends in an unhandled
\* rejection.
C12_NoFatalErrors == uncaught = FALSE

\* Task t has taken the step: one copy of it has left the bag.
Stepped(t) == CopiesIn(t, tasks') < CopiesIn(t, tasks)

OtherKeys(obj) == Restrict(obj, DOMAIN obj \ {"activeWindowId"})

C13_Inv ==
    /\ \A t \in Running : t.pc = "L10" => t.focusedId \in WindowIds
    /\ \A t \in Running : t.pc \in {"L8", "L10"} => t.tracker = "pending"

C13_Steps ==
    \A t \in Running :
        (t.pc \in {"L8", "L10"} /\ Stepped(t))
        => /\ uncaught' = uncaught
           /\ OtherKeys(storage') = OtherKeys(storage)
           /\ t.pc = "L8" =>
                 /\ storage' = storage /\ version' = version
                 /\ \E u \in Started(tasks, tasks') :
                       /\ u.h = t.h
                       /\ \/ /\ u.pc = "L10"
                             /\ lastFocused # NoWindow /\ u.focusedId = lastFocused
                          \/ u.pc = "L23" /\ u.tracker = "done"
                 /\ lastFocused = NoWindow => \A u \in Started(tasks, tasks') : u.pc = "L23"
           /\ t.pc = "L10" =>
                 /\ \/ /\ storage' = Spread(storage, [activeWindowId |-> t.focusedId])
                       /\ version' = version + 1
                    \/ storage' = storage /\ version' = version
                 /\ \E u \in Started(tasks, tasks') :
                       u.h = t.h /\ u.pc = "L23" /\ u.tracker = "done"

\* The storage read of a propagation returns what storage holds at that moment.
C13_Read ==
    \A t \in Running :
        (t.pc = "L23" /\ Stepped(t) /\ lastPass' = lastPass)
        => \E u \in Started(tasks, tasks') :
              u.h = t.h /\ u.pc = "L37" /\ u.settings = Restrict(storage, ReadKeys)

\* C13: updateActiveWindow writes activeWindowId only with the id of the window the
\* host returned, and only when there is one; when the query rejects, returns no
\* window, or the write rejects, it does not raise, storage is left as it was, and
\* the propagation that follows in the same listener runs with the activeWindowId
\* that storage holds.
C13_TrackerPolicy == []C13_Inv /\ [][C13_Steps /\ C13_Read]_vars

\* The write of window 11 rejected: the propagation runs with the stale id 10.
C13_Witness ==
    /\ lastPass.n > 0 /\ lastPass.h = "onStartup" /\ lastPass.error = "none"
    /\ lastPass.tracker = "done"
    /\ lastPass.focusedId = 11 /\ lastPass.wroteVer = 0
    /\ Has(lastPass.settings, "activeWindowId") /\ lastPass.settings.activeWindowId = 10
    /\ \E k \in 1..Len(Sent) : Sent[k].tabId = 1 /\ Sent[k].msg.enabled = TRUE
    /\ uncaught = FALSE

----------------------------------------------------------------------------
(* Properties of the install listener *)

FreshInstall(t) == t.h = "onInstalled" /\ t.reason = "install"

\* The number of the last write when nothing but the listener's own tracker wrote
\* after its defaults write.
OwnWrites(t) == t.defaultsVer + (IF t.wroteVer > 0 THEN 1 ELSE 0)

C14_Inv ==
    \A t \in Running :
        FreshInstall(t)
        => /\ t.pc = "L72" => t.plan = <<"defaults", "tracker", "propagator">>
           /\ t.pc \in {"L8", "L10"}
                 => t.plan = <<"tracker", "propagator">> /\ t.defaultsVer > 0
           /\ t.pc \in {"L23", "L37"}
                 => t.plan = <<"propagator">> /\ t.defaultsVer > 0 /\ t.tracker = "done"
           /\ t.pc = "L37"
                 => /\ t.readVer >= t.defaultsVer
                    /\ \A k \in SettingsKeys : Has(t.settings, k)
                    /\ t.readVer = OwnWrites(t)
                          => Restrict(t.settings, SettingsKeys) = Documented

C14_Steps ==
    \A t \in Running :
        (FreshInstall(t) /\ t.pc = "L72" /\ Stepped(t) /\ version' # version)
        => /\ Restrict(storage', SettingsKeys) = Documented
           /\ Restrict(storage', DOMAIN storage' \ SettingsKeys)
                 = Restrict(storage, DOMAIN storage \ SettingsKeys)
           /\ \E u \in Started(tasks, tasks') :
                 FreshInstall(u) /\ u.pc = "L8" /\ u.defaultsVer = version'

\* C14: the listener of an install event with reason 'install' first writes the five
\* settings keys with their defaults, then runs the tracker, then the propagator; the
\* propagation it starts reads storage after the defaults were written.
C14_FreshInstallOrder == []C14_Inv /\ [][C14_Steps]_vars

C14_Witness ==
    \E t \in Running :
        /\ FreshInstall(t) /\ t.pc = "L37"
        /\ t.defaultsVer = 1 /\ t.wroteVer = 2 /\ t.readVer = 2
        /\ t.settings = Spread(Documented, [activeWindowId |-> 11])

\* The install listener's write of the defaults has completed.
DefaultsWritten == flips.only = FALSE

WellFormed(st) ==
    /\ SettingsKeys \subseteq DOMAIN st
    /\ st.contrastEnabled \in BOOLEAN
    /\ st.contrastLevel \in Int /\ st.brightnessLevel \in Int /\ st.saturationLevel \in Int
    /\ st.scope \in {"all", "window"}

C15_Steps ==
    /\ DOMAIN storage \subseteq DOMAIN storage'
    /\ WellFormed(storage) => WellFormed(storage')

\* C15: once the fresh-install listener has written the defaults, all five settings
\* keys are in storage with well-formed values in every later state, whatever
\* listeners run and however they interleave, host failures included; no step
\* removes a key or makes a well-formed store ill-formed.
C15_SettingsPresent == [](DefaultsWritten => WellFormed(storage)) /\ [][C15_Steps]_vars

\* A toggle after the install: the defaults, with the master switch on.
C15_Witness ==
    /\ DefaultsWritten
    /\ tasks = EmptyBag
    /\ Restrict(storage, SettingsKeys) = [Documented EXCEPT !.contrastEnabled = TRUE]
    /\ flips.n = 1

----------------------------------------------------------------------------
(* Properties of single listeners *)

\* The step delivered an event to listener h.
Delivered(h) == dispatched'.h = h /\ nEvents' = nEvents + 1

C16_Inv ==
    /\ dispatched.h = "onMessage"
          => dispatched.result = "true" /\ dispatched.response = "none"
    /\ \A t \in Running : t.h = "onMessage" => t.plan = <<"propagator">>
    /\ (lastPass.n > 0 /\ lastPass.h = "onMessage" /\ lastPass.error = "none")
          => /\ OnePerHttpTab(Sent)
             /\ \A k \in 1..Len(Sent) :
                   Sent[k].msg = Message(finalSettings(lastPass.settings), TabOf(Sent[k].tabId))

C16_Steps ==
    Delivered("onMessage")
        => /\ storage' = storage /\ shown' = shown /\ lastPass' = lastPass
           /\ IF dispatched'.arg = "getCurrentSettings"
              THEN \E u \in Started(tasks, tasks') :
                      /\ u.h = "onMessage" /\ u.pc = "L23"
                      /\ tasks' = tasks (+) SetToBag({u})
              ELSE tasks' = tasks

\* C16: an inbound message with action 'getCurrentSettings' starts one propagation,
\* which sends to every http/https tab; the listener passes nothing to sendResponse;
\* a message with another action starts nothing; the listener returns true for
\* every message.
C16_Rebroadcast == []C16_Inv /\ [][C16_Steps]_vars

\* The pass of a getCurrentSettings message: one send to each of the tabs 1, 2
\* and 4, the last to a tab with no listener.
C16_Witness ==
    /\ lastPass.n > 0 /\ lastPass.h = "onMessage" /\ lastPass.error = "none"
    /\ {Sent[k].tabId : k \in 1..Len(Sent)} = {1, 2, 4}
    /\ Len(Sent) = 3
    /\ Sent[3].outcome = "Receiving end does not exist"
    /\ DOMAIN shown = {1, 2}

C17_Steps ==
    Delivered("onFocusChanged")
        => /\ storage' = storage /\ version' = version
           /\ shown' = shown /\ lastPass' = lastPass
           /\ IF dispatched'.arg > 0
              THEN \E u \in Started(tasks, tasks') :
                      /\ u.h = "onFocusChanged" /\ u.pc = "L8"
                      /\ u.plan = <<"tracker", "propagator">>
                      /\ tasks' = tasks (+) SetToBag({u})
              ELSE tasks' = tasks

\* C17: a focus-changed event with the 'no window' sentinel starts nothing: no window
\* query, no storage write, no propagation; an event for a real window starts the
\* tracker, with the propagator after it.
C17_FocusSentinel == [][C17_Steps]_vars

\* The sentinel delivered while window 11 has the focus and storage holds window
\* 10: no listener runs and storage keeps 10.
C17_Witness ==
    /\ dispatched.h = "onFocusChanged" /\ dispatched.arg = WINDOW_ID_NONE
    /\ tasks = EmptyBag
    /\ lastFocused = 11
    /\ storage = SavedStore
    /\ version = 0 /\ lastPass = NoPass

\* b negated n times.
RECURSIVE Negated(_, _)
Negated(b, n) == IF n = 0 THEN b ELSE Negated(~b, n - 1)

\* C18: the toggle is a flip under interleaving. Once every toggle command has
\* completed, and with no other writer of contrastEnabled, the stored value is the
\* value before the toggles negated once for each of them.
C18_ToggleIsFlip ==
    (flips.only /\ \A t \in Running : t.h # "onCommand")
        => Truthy(storage, "contrastEnabled") = Negated(flips.from, flips.n)

OtherInstall(t) == t.h = "onInstalled" /\ t.reason # "install"

C19_Inv ==
    \A t \in Running : OtherInstall(t) => t.pc # "L72" /\ t.defaultsVer = 0

C19_Steps ==
    /\ (Delivered("onInstalled") /\ dispatched'.arg # "install")
          => /\ storage' = storage
             /\ \E u \in Started(tasks, tasks') :
                   /\ OtherInstall(u) /\ u.pc = "L8"
                   /\ tasks' = tasks (+) SetToBag({u})
    /\ \A t \in Running :
          (OtherInstall(t) /\ Stepped(t))
          => /\ Restrict(storage', SettingsKeys) = Restrict(storage, SettingsKeys)
             /\ storage' # storage
                   => /\ t.pc = "L10"
                      /\ storage' = Spread(storage, [activeWindowId |-> t.focusedId])

\* C19: the listener of an install event whose reason is not 'install' writes none
\* of the five settings keys: every step it takes leaves them as they were, and the
\* only key it writes is activeWindowId.
C19_UpdatePreservesSettings == []C19_Inv /\ [][C19_Steps]_vars

\* After an update the saved settings are as they were, with the window that has
\* the focus as activeWindowId.
C19_Witness ==
    /\ lastPass.n > 0 /\ lastPass.h = "onInstalled" /\ lastPass.error = "none"
    /\ lastPass.wroteVer = 1
    /\ flips.only
    /\ tasks = EmptyBag
    /\ storage = Spread(SavedStore, [activeWindowId |-> 11])

----------------------------------------------------------------------------
(* Termination *)

\* No step of applyStylesToTabs writes storage or starts a listener.
C20_Steps ==
    \A t \in Running :
        (t.pc \in {"L23", "L37"} /\ Stepped(t))
        => /\ storage' = storage /\ version' = version
           /\ \A u \in Started(tasks, tasks') :
                 t.pc = "L23" /\ u.pc = "L37" /\ u.h = t.h /\ u.cause = t.cause

\* An event causes at most two storage writes and three propagations: the install
\* listener's two writes, the storage-changed propagation of each, and its own.
C20_Bounded ==
    /\ version <= 2 * nEvents
    /\ lastPass.n + BagCardinality(tasks) <= 3 * nEvents

\* C20: applyStylesToTabs never writes storage, so a propagation starts no further
\* storage-changed listener; the storage writes and the propagations are bounded by
\* the number of external events; and, every awaited host call settling, the
\* listeners running after any sequence of events all return: the system reaches a
\* state with no listener running.
C20_Quiescence ==
    /\ []C20_Bounded
    /\ [][C20_Steps]_vars
    /\ (tasks # EmptyBag) ~> (tasks = EmptyBag)

\* A fresh install followed by a toggle: three writes, four propagations, at rest.
C20_Witness ==
    /\ tasks = EmptyBag
    /\ nEvents = 2
    /\ version = 3
    /\ lastPass.n = 4

====
